---- MODULE Spec2Model ----
(***************************************************************************)
(* The TTL memoizing decorator of src/decorator/decorator_cache_demo2.py:  *)
(* async_cache(ttl_seconds) -> decorator(func) -> wrapper(args, kwargs).   *)
(* One cache dict per decorated function, asyncio's cooperative scheduling *)
(* (a coroutine runs uninterrupted between two awaits), time.time() as an  *)
(* integer clock.                                                          *)
(***************************************************************************)
EXTENDS Integers, Sequences, FiniteSets, TLC

\* ---------------------------------------------------------------- bounds
\* wrapper invocations per behaviour
MaxCalls == 3
\* largest reading of time.time()
MaxTime == 2
\* largest ttl_seconds a wrapper is constructed with
MaxTTL == 1
\* largest times a retry wrapper is constructed with
MaxTimes == 3

\* ---------------------------------------------------------------- Python values
\* A str, or an instance of a class that defines no __repr__ (object.__repr__
\* prints the class and the address, not the attributes).
PyS(s) == [type |-> "str", s |-> s, addr |-> ""]
PyObj(code, addr) == [type |-> "Currency", s |-> code, addr |-> addr]

\* repr(v): quotes around a str; "<... object at 0x...>" for the instance
PyRepr(v) ==
    IF v.type = "str" THEN "'" \o v.s \o "'"
    ELSE "<__main__.Currency object at 0x" \o v.addr \o ">"

\* str(v): the text itself for a str; object.__str__ is object.__repr__
PyStr(v) == IF v.type = "str" THEN v.s ELSE PyRepr(v)

RECURSIVE JoinFrom(_, _, _)
JoinFrom(parts, i, sep) ==
    IF i > Len(parts) THEN ""
    ELSE IF i = Len(parts) THEN parts[i]
    ELSE parts[i] \o sep \o JoinFrom(parts, i + 1, sep)

\* str(args), args a tuple: element reprs, a trailing comma for a 1-tuple
StrTuple(args) ==
    IF Len(args) = 1 THEN "(" \o PyRepr(args[1]) \o ",)"
    ELSE "(" \o JoinFrom([i \in 1..Len(args) |-> PyRepr(args[i])], 1, ", ") \o ")"

\* str(kwargs), kwargs a dict in call order: 'name': repr(value)
StrDict(kwargs) ==
    "{" \o JoinFrom([i \in 1..Len(kwargs) |->
                        PyRepr(PyS(kwargs[i][1])) \o ": " \o PyRepr(kwargs[i][2])],
                    1, ", ") \o "}"

\* line 16: key = str(args) + str(kwargs)
Key(a) == StrTuple(a.args) \o StrDict(a.kwargs)

\* The argument sets the wrapper is called with: those of main() (lines 49-55)
\* and two more for fetch_exchange_rate; a str pair and two objects, the second
\* allocated where the first was, for any other producer.
FetchArgSets ==
    { [args |-> <<PyS("EUR"), PyS("USD")>>, kwargs |-> <<>>],
      [args |-> <<PyS("EUR"), PyS("GBP")>>, kwargs |-> <<>>],
      [args |-> <<PyS("GBP")>>, kwargs |-> << <<"to_currency", PyS("USD")>> >>],
      [args |-> <<PyS("USD"), PyS("EUR")>>, kwargs |-> <<>>] }
AnyArgSets ==
    { [args |-> <<PyS("EUR")>>, kwargs |-> << <<"to_currency", PyS("USD")>> >>],
      [args |-> <<PyObj("EUR", "7f10"), PyS("USD")>>, kwargs |-> <<>>],
      [args |-> <<PyObj("GBP", "7f10"), PyS("USD")>>, kwargs |-> <<>>] }
ArgSets(f) == IF f = "fetch_exchange_rate" THEN FetchArgSets ELSE AnyArgSets

\* the objects among the arguments of a
Objects(a) ==
    { v \in {a.args[i] : i \in 1..Len(a.args)}
            \cup {a.kwargs[i][2] : i \in 1..Len(a.kwargs)} : v.type # "str" }

\* Two objects alive at once never share an address; a freed address is reused.
CanCoexist(a, b) ==
    \A x \in Objects(a), y \in Objects(b) : x.addr = y.addr => x = y

\* ---------------------------------------------------------------- producers
\* the parameters fetch_exchange_rate binds from a call
Param(a, i, name) ==
    IF i <= Len(a.args) THEN a.args[i]
    ELSE a.kwargs[CHOOSE j \in 1..Len(a.kwargs) : a.kwargs[j][1] = name][2]

\* lines 34-45 after the sleep: the value returned ("None" when the body falls
\* off its end: line 43 is an expression statement, not a return)
fetch_exchange_rate(from_currency, to_currency) ==
    LET key == PyStr(from_currency) \o "2" \o PyStr(to_currency)
    IN  IF key = "EUR2USD" THEN "1.18"
        ELSE IF key = "EUR2GBP" THEN "0.88"
        ELSE IF key = "GBP2USD" THEN "None"
        ELSE "0"

\* func of decorator(func): the repository's producer, or any async callable
AnyResults == {"1.18", "1.21"}
AnyErrors == {"ConnectionError"}

\* what func returns for the arguments a once its sleep is over (line 26)
ProducerResults(f, a) ==
    IF f = "fetch_exchange_rate"
    THEN {fetch_exchange_rate(Param(a, 1, "from_currency"), Param(a, 2, "to_currency"))}
    ELSE AnyResults

\* what func raises instead of returning
ProducerErrors(f) == IF f = "fetch_exchange_rate" THEN {} ELSE AnyErrors

\* ---------------------------------------------------------------- state
VARIABLES
    ttl_seconds,  \* async_cache's parameter, fixed at construction
    func,         \* the decorated producer
    cache,        \* the dict of line 12: key -> <<res, timestamp>>
    now,          \* the reading of time.time()
    ncalls,       \* wrapper invocations started so far
    calls,        \* the invocations suspended in line 26, by number of start
    running,      \* the invocation holding the event loop, 0 when none does
    last,         \* the invocation that ended most recently
    writer,       \* for each key of cache, the invocation that stored its entry
    cancelled,    \* the invocations that ended by cancellation
    retry         \* one call of retry's wrapper (src/decorator/test.py)

cvars == <<ttl_seconds, func, cache, now, ncalls, calls, running, last, writer,
           cancelled>>
vars == <<cvars, retry>>

Ids == DOMAIN calls
NoArgs == [args |-> <<>>, kwargs |-> <<>>]
NoCall == [a |-> NoArgs, key |-> "", pc |-> "none", hit |-> FALSE,
           res |-> "", exc |-> "", prodExc |-> "", invoked |-> 0, yields |-> 0,
           writes |-> 0, before |-> <<>>, src |-> NoArgs, overtaken |-> FALSE]

\* no call of a retry wrapper is under way
RetryIdle == [pc |-> "idle", func |-> "", times |-> 0, delay |-> 0, i |-> 0,
              last_exc |-> "None", result |-> "", exc |-> "", sleeps |-> 0,
              log |-> <<>>]

\* the suspended invocations once c has ended, having taken cache to new: an
\* earlier-started invocation for the same key is marked overtaken when c stored
Leave(c, new) ==
    [i \in Ids \ {c} |->
        IF i < c /\ calls[i].key = calls[c].key /\ new # cache
        THEN [calls[i] EXCEPT !.overtaken = TRUE] ELSE calls[i]]

\* line 21 with the operands exchanged: timestamp - time.time() <= ttl_seconds
Fresh_swapped(timestamp) == timestamp - now <= ttl_seconds

\* line 21 with < for <=: an entry exactly ttl_seconds old counts as stale
Fresh_strict(timestamp) == now - timestamp < ttl_seconds

\* line 21: time.time() - timestamp <= ttl_seconds
Fresh(timestamp) == now - timestamp <= ttl_seconds

\* lines 19-21 without the test of line 21: any entry is served, however old
IsHit_noexpiry(key) == key \in DOMAIN cache

\* lines 19-21: the lookup finds a usable entry
IsHit(key) == key \in DOMAIN cache /\ Fresh(cache[key][2])

\* lines 19-21 with a del cache[key] for an entry found stale
CacheOnLookup_evict(key) ==
    IF key \in DOMAIN cache /\ ~Fresh(cache[key][2])
    THEN [k \in DOMAIN cache \ {key} |-> cache[k]] ELSE cache

\* lines 19-23 with the entry re-stamped when it is served (sliding expiration)
CacheOnLookup_touch(key) ==
    IF IsHit(key)
    THEN [k \in DOMAIN cache |-> IF k = key THEN <<cache[k][1], now>> ELSE cache[k]]
    ELSE cache

\* lines 19-23: the lookup reads cache[key] and assigns nothing in the dict
CacheOnLookup(key) == cache

\* line 26: func(*args, **kwargs) is handed the wrapper's own arguments
Forwarded(a) == a

\* line 26 as res = (await func(...)) or 0: a falsy result is replaced
Awaited_or0(r) == IF r = "None" THEN "0" ELSE r

\* line 26: res is what the await evaluates to, the producer's return value
Awaited(r) == r

\* line 27 as cache.setdefault(key, ...): an entry already there is kept
Put_setdefault(d, key, entry) ==
    [k \in DOMAIN d \cup {key} |-> IF k \in DOMAIN d THEN d[k] ELSE entry]

\* line 27: cache[key] = ..., a dict upsert
Put(d, key, entry) ==
    [k \in DOMAIN d \cup {key} |-> IF k = key THEN entry ELSE d[k]]

\* line 27 with the timestamp of line 20 in place of a new time.time()
StoredEntry_oldstamp(c) ==
    <<calls[c].res,
      IF calls[c].key \in DOMAIN cache THEN cache[calls[c].key][2] ELSE now>>

\* line 27: the tuple stored, stamped with the clock read after the await
StoredEntry(c) == <<calls[c].res, now>>

\* an await between lines 26 and 27: the event loop is released before the store
RunsAfterProducer_yield(c) == 0

\* lines 26-27: no await between the producer's return and the store, so the
\* invocation keeps the event loop
RunsAfterProducer(c) == c

\* an except clause that drops the key's entry when the producer raises
CacheOnRaise_evict(c, e) ==
    [k \in DOMAIN cache \ {calls[c].key} |-> cache[k]]

\* line 26: an exception out of the await leaves the function before line 27
CacheOnRaise(c, e) == cache

\* line 27 inside a finally clause: the store also runs on cancellation
CacheOnCancel_store(c) == Put(cache, calls[c].key, <<calls[c].res, now>>)

\* line 26: CancelledError is thrown into the await; line 27 is not reached
CacheOnCancel(c) == cache

\* an except clause that raises its own error in place of the producer's
Propagate_wrapped(e) == "RuntimeError"

\* line 26: no try/except around the await, the exception leaves as raised
Propagate(e) == e

\* the bookkeeping of who stored what, after a step that took cache to new
WriterAfter(new, c, rec) ==
    [k \in DOMAIN new |->
        IF k \in DOMAIN cache /\ new[k] = cache[k] /\ k # rec.key THEN writer[k]
        ELSE IF k \in DOMAIN cache /\ new[k] = cache[k] /\ rec.writes = 0 THEN writer[k]
        ELSE [a |-> rec.a, ret |-> rec.res, invoked |-> rec.invoked,
              prodRes |-> rec.prodRes, prodT |-> rec.prodT]]

\* decorator(func) has run (lines 11-12): an empty cache, nothing called yet
Start(f) ==
    /\ ttl_seconds \in {0, MaxTTL}
    /\ func = f
    /\ cache = <<>>
    /\ writer = <<>>
    /\ now = 0
    /\ ncalls = 0
    /\ calls = <<>>
    /\ running = 0
    /\ last = NoCall
    /\ cancelled = {}
    /\ retry = RetryIdle

\* the decorator around an arbitrary async producer
Init == Start("any")

\* the decorator as lines 33-34 apply it
InitFetch == Start("fetch_exchange_rate")

\* wrapper(*args, **kwargs) up to its return on a hit (lines 16-23), or up to
\* the producer's sleep inside the await of line 26
Call(a) ==
    /\ running = 0
    /\ ncalls < MaxCalls
    /\ \A c \in Ids : CanCoexist(a, calls[c].a)
    /\ ncalls' = ncalls + 1
    /\ LET key == Key(a)
           before == IF key \in DOMAIN cache THEN cache[key] ELSE <<>>
           src == IF key \in DOMAIN cache THEN writer[key].a ELSE NoArgs
       IN  IF IsHit(key)
           THEN /\ last' = [NoCall EXCEPT !.a = a, !.key = key,
                               !.pc = "returned", !.hit = TRUE,
                               !.res = cache[key][1],
                               !.before = before, !.src = src]
                /\ calls' = calls
           ELSE /\ calls' = [i \in Ids \cup {ncalls'} |->
                               IF i \in Ids THEN calls[i]
                               ELSE [a |-> a, fwd |-> Forwarded(a),
                                     key |-> key, pc |-> "awaiting",
                                     res |-> "", prodRes |-> "",
                                     prodT |-> -1, invoked |-> 1, yields |-> 1,
                                     writes |-> 0, before |-> before,
                                     src |-> src, overtaken |-> FALSE]]
                /\ last' = last
    /\ cache' = CacheOnLookup(Key(a))
    /\ writer' = [k \in DOMAIN cache' |-> writer[k]]
    /\ UNCHANGED <<retry, ttl_seconds, func, now, running, cancelled>>

\* the producer's sleep is over and it returns r: res = await func(...) (line 26)
Resume(c) ==
    /\ running = 0
    /\ calls[c].pc = "awaiting"
    /\ \E r \in ProducerResults(func, calls[c].fwd) :
          calls' = [calls EXCEPT ![c].pc = "resumed", ![c].prodRes = r,
                                 ![c].res = Awaited(r), ![c].prodT = now]
    /\ running' = RunsAfterProducer(c)
    /\ UNCHANGED <<retry, ttl_seconds, func, cache, now, ncalls, last, writer, cancelled>>

\* lines 27-28: store and return
Store(c) ==
    /\ calls[c].pc = "resumed"
    /\ running \in {0, c}
    /\ LET rec == [calls[c] EXCEPT !.writes = @ + 1]
           new == Put(cache, rec.key, StoredEntry(c))
       IN  /\ cache' = new
           /\ writer' = WriterAfter(new, c, rec)
           /\ last' = [NoCall EXCEPT !.a = rec.a, !.key = rec.key,
                          !.pc = "returned", !.res = rec.res,
                          !.invoked = rec.invoked, !.yields = rec.yields,
                          !.writes = rec.writes, !.before = rec.before,
                          !.src = rec.src, !.overtaken = rec.overtaken]
    /\ calls' = Leave(c, cache')
    /\ running' = 0
    /\ UNCHANGED <<retry, ttl_seconds, func, now, ncalls, cancelled>>

\* the producer raises e; the exception leaves the wrapper (line 26)
Fail(c) ==
    /\ running = 0
    /\ calls[c].pc = "awaiting"
    /\ \E e \in ProducerErrors(func) :
          LET new == CacheOnRaise(c, e)
              rec == [calls[c] EXCEPT !.writes = IF new = cache THEN 0 ELSE 1]
          IN  /\ cache' = new
              /\ writer' = WriterAfter(new, c, rec)
              /\ last' = [NoCall EXCEPT !.a = rec.a, !.key = rec.key,
                             !.pc = "raised", !.prodExc = e, !.exc = Propagate(e),
                             !.invoked = rec.invoked, !.yields = rec.yields,
                             !.writes = rec.writes, !.before = rec.before,
                          !.src = rec.src, !.overtaken = rec.overtaken]
    /\ calls' = Leave(c, cache')
    /\ UNCHANGED <<retry, ttl_seconds, func, now, ncalls, running, cancelled>>

\* the task awaiting the wrapper is cancelled while suspended in the producer
Cancel(c) ==
    /\ running = 0
    /\ calls[c].pc = "awaiting"
    /\ LET new == CacheOnCancel(c)
           rec == [calls[c] EXCEPT !.writes = IF new = cache THEN 0 ELSE 1]
       IN  /\ cache' = new
           /\ writer' = WriterAfter(new, c, rec)
           /\ last' = [NoCall EXCEPT !.a = rec.a, !.key = rec.key,
                          !.pc = "cancelled", !.exc = "CancelledError",
                          !.invoked = rec.invoked, !.yields = rec.yields,
                          !.writes = rec.writes, !.before = rec.before,
                          !.src = rec.src, !.overtaken = rec.overtaken]
    /\ calls' = Leave(c, cache')
    /\ cancelled' = cancelled \cup {c}
    /\ UNCHANGED <<retry, ttl_seconds, func, now, ncalls, running>>

\* time passes while no coroutine is running
Tick ==
    /\ running = 0
    /\ now < MaxTime
    /\ now' = now + 1
    /\ UNCHANGED <<retry, ttl_seconds, func, cache, ncalls, calls, running, last, writer,
                   cancelled>>

Next ==
    \/ \E a \in ArgSets(func) : Call(a)
    \/ \E c \in Ids : Resume(c)
    \/ \E c \in Ids : Store(c)
    \/ \E c \in Ids : Fail(c)
    \/ \E c \in Ids : Cancel(c)
    \/ Tick

Spec == Init /\ [][Next]_vars

\* fetch_exchange_rate has no raise and nothing in it raises for str arguments
NextFetch ==
    \/ \E a \in ArgSets(func) : Call(a)
    \/ \E c \in Ids : Resume(c)
    \/ \E c \in Ids : Store(c)
    \/ \E c \in Ids : Cancel(c)
    \/ Tick

SpecFetch == InitFetch /\ [][NextFetch]_vars

\* ---------------------------------------------------------------- steps
\* this step starts an invocation with the arguments a
StartOf(a) ==
    /\ ncalls' = ncalls + 1
    /\ IF calls' = calls THEN last'.a = a ELSE calls'[ncalls'].a = a

\* ... which returned from the cache (lines 19-23)
HitStep(a) == ncalls' = ncalls + 1 /\ calls' = calls /\ last'.hit /\ last'.a = a

\* ... which went on to the producer (line 26)
MissStep(a) ==
    /\ ncalls' = ncalls + 1
    /\ ncalls' \in DOMAIN calls'
    /\ calls'[ncalls'].a = a
    /\ calls'[ncalls'].pc = "awaiting"
    /\ last' = last

\* this step ends the suspended invocation c
Ends(c) == c \in DOMAIN calls /\ c \notin DOMAIN calls'

\* ---------------------------------------------------------------- C1
\* C1 (hit correctness): when an invocation with arguments a stored its result
\* at computed_at and the next lookup for a finds that entry while
\* now - computed_at <= ttl, the second invocation returns without invoking the
\* producer (one producer invocation over the two) and returns the value the
\* first returned.
HitCorrectness ==
    [][\A a \in ArgSets(func) :
         LET k == Key(a) IN
         (/\ StartOf(a)
          /\ k \in DOMAIN cache
          /\ writer[k].a = a
          /\ now - cache[k][2] <= ttl_seconds)
         => /\ HitStep(a)
            /\ last'.pc = "returned"
            /\ last'.res = writer[k].ret
            /\ last'.invoked = 0
            /\ writer[k].invoked + last'.invoked = 1
            /\ cache' = cache]_vars

\* a second call with the same arguments, served at the very end of the window
HitAtWindowEnd ==
    /\ last.hit
    /\ last.src = last.a
    /\ ttl_seconds > 0
    /\ now - cache[last.key][2] = ttl_seconds
    /\ last.res = cache[last.key][1]

\* ---------------------------------------------------------------- C2
\* C2 (expiry correctness): a lookup for arguments a that finds the entry a's
\* earlier call stored, more than ttl old, is a miss that invokes the producer;
\* when that invocation returns, the key's entry becomes the new value with the
\* clock reading at which the producer completed, later than the old stamp.
ExpiryCorrectness ==
    [][/\ \A a \in ArgSets(func) :
            LET k == Key(a) IN
            (/\ StartOf(a)
             /\ k \in DOMAIN cache
             /\ writer[k].a = a
             /\ now - cache[k][2] > ttl_seconds)
            => /\ MissStep(a)
               /\ calls'[ncalls'].invoked = 1
               /\ cache' = cache
       /\ \A c \in Ids :
            (/\ Ends(c)
             /\ last'.pc = "returned"
             /\ calls[c].before # <<>>
             /\ calls[c].src = calls[c].a)
            => /\ cache'[calls[c].key] = <<calls[c].prodRes, calls[c].prodT>>
               /\ calls[c].prodT = now
               /\ cache'[calls[c].key][2] > calls[c].before[2] + ttl_seconds
               /\ last'.res = calls[c].prodRes
               /\ last'.invoked = 1]_vars

\* a stale entry of the same arguments has been replaced by a different value
StaleEntryOverwritten ==
    /\ last.pc = "returned"
    /\ ~last.hit
    /\ last.before # <<>>
    /\ last.src = last.a
    /\ cache[last.key][1] = last.res
    /\ cache[last.key][1] # last.before[1]
    /\ cache[last.key][2] > last.before[2] + ttl_seconds

\* ---------------------------------------------------------------- C3
\* C3 as stated (failure non-caching): after the producer failed for key k, no
\* entry exists for k, so the next call for k cannot be served from the cache.
FailureLeavesNoEntry ==
    last.pc = "raised" => last.key \notin DOMAIN cache /\ ~IsHit(last.key)

\* C3 as amended: a call whose producer fails stores nothing: k has an entry
\* afterwards exactly if it had one just before the failure, and the same one;
\* the next call for k invokes the producer again unless such an entry is fresh.
FailureStoresNothing ==
    [][/\ \A c \in Ids :
            (Ends(c) /\ last'.pc = "raised")
            => LET k == calls[c].key IN
               /\ (k \in DOMAIN cache') = (k \in DOMAIN cache)
               /\ k \in DOMAIN cache => cache'[k] = cache[k]
               /\ last'.writes = 0
       /\ \A a \in ArgSets(func) :
            LET k == Key(a) IN
            (/\ last.pc = "raised"
             /\ last.key = k
             /\ StartOf(a)
             /\ (k \notin DOMAIN cache \/ now - cache[k][2] > ttl_seconds))
            => MissStep(a) /\ calls'[ncalls'].invoked = 1]_vars

\* the producer failed for a key whose stale entry is still in the table
FailureKeepsStaleEntry ==
    /\ last.pc = "raised"
    /\ last.before # <<>>
    /\ last.key \in DOMAIN cache
    /\ cache[last.key] = last.before

\* ---------------------------------------------------------------- C4
\* C4 (failure propagation): when the producer raises, the wrapper call ends
\* with the producer's own exception after one producer invocation, and the
\* whole table is what it was before the failure.
FailurePropagates ==
    [][\A c \in Ids :
         (Ends(c) /\ last'.pc = "raised")
         => /\ last'.prodExc \in ProducerErrors(func)
            /\ last'.exc = last'.prodExc
            /\ last'.invoked = 1
            /\ last'.writes = 0
            /\ cache' = cache]_vars

\* a failed call beside entries for its own key and for another key
FailedBesideEntries ==
    /\ last.pc = "raised"
    /\ last.exc = "ConnectionError"
    /\ last.key \in DOMAIN cache
    /\ \E k \in DOMAIN cache : k # last.key

\* ---------------------------------------------------------------- C5
\* C5 (key distinctness): argument sets that differ in a value have different
\* keys, so no call is served a value stored for other arguments, and no call
\* finds under its key an entry stored for other arguments.
KeyDistinctness ==
    /\ last.hit => last.src = last.a
    /\ \A c \in Ids : calls[c].before # <<>> => calls[c].src = calls[c].a

\* ---------------------------------------------------------------- C6
\* C6 as stated (ttl = 0): with ttl_seconds = 0 every call is a miss.
ZeroTtlAlwaysMisses == ttl_seconds = 0 => ~last.hit

\* C6 as amended: with ttl_seconds = 0 a call is a miss, invoking the producer,
\* when its key has no entry or the clock has moved past the entry's stamp; a
\* call that starts at the clock reading at which its key's entry was stored is
\* served that entry.
ZeroTtlMissesLater ==
    [][\A a \in ArgSets(func) :
         LET k == Key(a) IN
         (ttl_seconds = 0 /\ StartOf(a))
         => IF k \in DOMAIN cache /\ cache[k][2] = now
            THEN HitStep(a) /\ last'.res = cache[k][1] /\ last'.invoked = 0
            ELSE MissStep(a) /\ calls'[ncalls'].invoked = 1]_vars

\* ttl_seconds = 0 and a call served an entry stored at the present reading
ZeroTtlHitSameReading ==
    /\ ttl_seconds = 0
    /\ last.hit
    /\ last.before = cache[last.key]
    /\ cache[last.key][2] = now
    /\ now > 0

\* ---------------------------------------------------------------- C7
\* C7 (uncoordinated concurrent misses): every call that missed has invoked the
\* producer, whatever other calls for its key are suspended beside it, and each
\* one that returns stores its own value and completion time over whatever the
\* key holds, also when a later-started call for the key stored in between: the
\* entry is that of the call that completed last.
UncoordinatedMisses ==
    /\ [](\A c \in Ids : calls[c].invoked = 1)
    /\ [](last.pc = "returned" /\ ~last.hit
             => last.writes = 1 /\ cache[last.key][1] = last.res)
    /\ [][\A c \in Ids :
            (Ends(c) /\ last'.pc = "returned")
            => /\ cache'[calls[c].key] = <<calls[c].prodRes, now>>
               /\ \A d \in Ids \ {c} :
                    calls[d].key = calls[c].key
                    => d \in DOMAIN calls' /\ calls'[d].invoked = 1]_vars

\* of two overlapping calls for a key the first to start was the last to
\* complete, and the entry is its value, not the other's
FirstStartedWroteLast ==
    /\ last.pc = "returned"
    /\ last.overtaken
    /\ last.before = <<>>
    /\ last.writes = 1
    /\ cache[last.key] = <<last.res, now>>
    /\ writer[last.key].a = last.a

\* ---------------------------------------------------------------- C8
\* C8 (table data invariant): every entry (value, computed_at) under key k is
\* what one producer invocation, made with arguments whose key is k, returned,
\* and computed_at is the clock reading at which that invocation completed.
TableData ==
    \A k \in DOMAIN cache :
        /\ Key(writer[k].a) = k
        /\ writer[k].invoked = 1
        /\ writer[k].prodRes \in ProducerResults(func, writer[k].a)
        /\ cache[k] = <<writer[k].prodRes, writer[k].prodT>>

\* entries under two keys, one of them rewritten with another value at a later
\* reading by a call that a later-started call had overtaken
TableAfterRewrites ==
    /\ Cardinality(DOMAIN cache) = 2
    /\ last.pc = "returned"
    /\ last.overtaken
    /\ cache[last.key][2] = MaxTime
    /\ \E k \in DOMAIN cache : cache[k][1] # cache[last.key][1] /\ cache[k][2] < MaxTime

\* ---------------------------------------------------------------- C9
\* C9 (suspension points): a call suspends once, in the producer, and only on a
\* miss; a hit is one step that changes neither the table nor any suspended
\* call; and once the producer has returned, the very next step of the system
\* is that call's store and return, with no clock tick and no other call's step
\* in between.
SuspensionPoints ==
    /\ [](\A c \in Ids : /\ calls[c].yields = 1
                         /\ calls[c].pc = "resumed" => running = c)
    /\ [](last.yields <= 1 /\ (last.hit => last.yields = 0))
    /\ [][/\ \A a \in ArgSets(func) :
               HitStep(a) => cache' = cache /\ calls' = calls /\ running' = 0
          /\ \A c \in Ids :
               calls[c].pc = "resumed"
               => /\ Ends(c)
                  /\ last'.pc = "returned"
                  /\ now' = now
                  /\ \A d \in Ids \ {c} : calls'[d].pc = calls[d].pc]_vars

\* the producer has returned to one call while another call for the same key is
\* suspended
ResumedBesideSuspended ==
    \E c, d \in Ids :
        /\ calls[c].pc = "resumed"
        /\ calls[d].pc = "awaiting"
        /\ calls[c].key = calls[d].key
        /\ running = c

\* ---------------------------------------------------------------- C10
\* C10 (cancellation writes nothing): the step that cancels a suspended call
\* leaves the whole table as it was, and no later step of a cancelled call
\* exists: every change of the table is the store of a call whose producer
\* returned and that was never cancelled.
CancellationWritesNothing ==
    /\ [](cancelled \cap Ids = {})
    /\ [](last.pc = "cancelled" => last.writes = 0)
    /\ [][/\ \A c \in Ids :
               (Ends(c) /\ last'.pc = "cancelled")
               => cache' = cache /\ writer' = writer /\ c \in cancelled'
          /\ cache' # cache
               => \E c \in Ids \ cancelled :
                     /\ calls[c].pc = "resumed"
                     /\ Ends(c)
                     /\ c \notin cancelled'
                     /\ \A k \in DOMAIN cache \ {calls[c].key} :
                            k \in DOMAIN cache' /\ cache'[k] = cache[k]]_vars

\* a call was cancelled while the table held an entry for its key, stored by an
\* overlapping call, and an entry for another key
CancelledBesideEntries ==
    /\ last.pc = "cancelled"
    /\ last.exc = "CancelledError"
    /\ last.before = <<>>
    /\ last.key \in DOMAIN cache
    /\ \E k \in DOMAIN cache : k # last.key

\* ---------------------------------------------------------------- C11
\* C11 (entry lifecycle): no step removes a key from the table; a key appears,
\* or its entry changes, only in the step in which a call for that key returns
\* from a miss, and then the entry is that call's value and completion time.
\* Lookups that hit, lookups that find the entry expired, failures,
\* cancellations and the passing of time leave every entry in place.
EntryLifecycle ==
    [][/\ DOMAIN cache \subseteq DOMAIN cache'
       /\ \A k \in DOMAIN cache' :
            (k \notin DOMAIN cache \/ cache'[k] # cache[k])
            => \E c \in Ids :
                  /\ calls[c].key = k
                  /\ calls[c].pc = "resumed"
                  /\ Ends(c)
                  /\ last'.pc = "returned" /\ ~last'.hit
                  /\ cache'[k] = <<calls[c].prodRes, now>>]_vars

\* an expired entry is still in the table, beside another key's entry, after a
\* later call for its key found it expired and failed
ExpiredEntryStays ==
    /\ last.pc = "raised"
    /\ last.before # <<>>
    /\ cache[last.key] = last.before
    /\ now - cache[last.key][2] > ttl_seconds
    /\ Cardinality(DOMAIN cache) = 2

\* ---------------------------------------------------------------- C12
\* C12 (pass-through fidelity): a call that returns from a miss, whether its key
\* was absent or stale, has invoked the producer once, with the positional and
\* keyword arguments the wrapper received, and returns what that invocation
\* returned, which is also the value stored; so for fetch_exchange_rate's
\* results None and 0 as for the others.
PassThroughFidelity ==
    [][\A c \in Ids :
         (Ends(c) /\ last'.pc = "returned")
         => /\ calls[c].invoked = 1 /\ last'.invoked = 1
            /\ calls[c].fwd = calls[c].a
            /\ calls[c].prodRes
                 = fetch_exchange_rate(Param(calls[c].a, 1, "from_currency"),
                                       Param(calls[c].a, 2, "to_currency"))
            /\ last'.res = calls[c].prodRes
            /\ cache'[calls[c].key][1] = last'.res]_vars

\* fetch_exchange_rate("GBP", to_currency="USD") has just returned None through
\* the wrapper, over a stale entry, and another key holds the result 0
NoneAndZeroPassedThrough ==
    /\ func = "fetch_exchange_rate"
    /\ last.pc = "returned" /\ ~last.hit
    /\ last.a.kwargs # <<>>
    /\ last.before # <<>>
    /\ last.res = "None"
    /\ cache[last.key][1] = "None"
    /\ \E k \in DOMAIN cache : cache[k][1] = "0"

\* ---------------------------------------------------------------- C13
\* C13 (a hit changes nothing): the step of a call served from the cache leaves
\* the whole table, timestamps included, and every suspended call as they were;
\* the entry served was computed at most ttl before the call started, so its age
\* is counted from the producer's completion, not from an earlier hit.
HitChangesNothing ==
    [][\A a \in ArgSets(func) :
         LET k == Key(a) IN
         HitStep(a)
         => /\ cache' = cache
            /\ writer' = writer
            /\ calls' = calls
            /\ last'.writes = 0
            /\ last'.res = writer[k].prodRes
            /\ now - writer[k].prodT <= ttl_seconds]_vars

\* the last of MaxCalls calls was served, at the very end of its window, the
\* only entry of the table, computed at reading 0 and still stamped 0
HitKeepsStamp ==
    /\ last.hit
    /\ ttl_seconds > 0
    /\ ncalls = MaxCalls /\ calls = <<>> /\ cancelled = {}
    /\ DOMAIN cache = {last.key}
    /\ cache[last.key][2] = 0
    /\ writer[last.key].prodT = 0
    /\ now = ttl_seconds

\* ---------------------------------------------------------------- retry
\* src/decorator/test.py lines 28-41: retry(times, delay) -> deco(func) ->
\* wrapper, a synchronous loop.

\* what one invocation of the wrapped function does: return a value, raise an
\* Exception, or raise a BaseException that is no Exception
Ret(v) == [kind |-> "return", val |-> v]
Exc(e) == [kind |-> "Exception", val |-> e]
BaseExc(e) == [kind |-> "BaseException", val |-> e]

\* lines 43-45: flaky always raises, 1 / 0
flaky == {Exc("ZeroDivisionError")}

\* any other function under the decorator
AnyOutcomes ==
    {Ret("3"), Ret("None"), Exc("ZeroDivisionError"), Exc("ValueError"),
     BaseExc("KeyboardInterrupt")}

Outcomes(f) == IF f = "flaky" THEN flaky ELSE AnyOutcomes

\* line 33 as range(times + 1): one attempt too many
Attempts_offbyone(times) == times + 1

\* line 33: for _ in range(times)
Attempts(times) == IF times > 0 THEN times ELSE 0

\* line 37: last_exc = e
LastExc(old, e) == e

\* line 39: raise last_exc; raise None is a TypeError
RaiseLast(last_exc) == IF last_exc = "None" THEN "TypeError" ELSE last_exc

\* delay in tenths of a second: negative, zero, and the 0.2 of line 43
Delays == {0 - 1, 0, 2}

\* line 38: time.sleep(delay) raises ValueError for a negative delay
Sleep(delay) == IF delay < 0 THEN "ValueError: sleep length" ELSE "slept"

\* the cache of the other decorator plays no part
CacheIdle ==
    /\ ttl_seconds = 0
    /\ func = "any"
    /\ cache = <<>>
    /\ writer = <<>>
    /\ now = 0
    /\ ncalls = 0
    /\ calls = <<>>
    /\ running = 0
    /\ last = NoCall
    /\ cancelled = {}

\* wrapper(*args, **kwargs) is entered: last_exc = None (line 32)
InitRetry ==
    /\ CacheIdle
    /\ \E f \in {"flaky", "any"}, t \in 0..MaxTimes, d \in Delays :
          retry = [RetryIdle EXCEPT !.pc = "loop", !.func = f, !.times = t,
                                    !.delay = d]

\* one pass of the loop body, the function returning (line 35)
AttemptReturns ==
    /\ retry.pc = "loop"
    /\ retry.i < Attempts(retry.times)
    /\ \E o \in Outcomes(retry.func) :
          /\ o.kind = "return"
          /\ retry' = [retry EXCEPT !.i = @ + 1, !.log = Append(@, o),
                                    !.pc = "returned", !.result = o.val]
    /\ UNCHANGED cvars

\* one pass of the loop body, the function raising an Exception (lines 36-38):
\* last_exc = e, then time.sleep(delay), whose own exception leaves the wrapper
AttemptRaises ==
    /\ retry.pc = "loop"
    /\ retry.i < Attempts(retry.times)
    /\ \E o \in Outcomes(retry.func) :
          /\ o.kind = "Exception"
          /\ IF Sleep(retry.delay) = "slept"
             THEN retry' = [retry EXCEPT !.i = @ + 1, !.log = Append(@, o),
                                         !.last_exc = LastExc(@, o.val),
                                         !.sleeps = @ + 1]
             ELSE retry' = [retry EXCEPT !.i = @ + 1, !.log = Append(@, o),
                                         !.last_exc = LastExc(@, o.val),
                                         !.pc = "raised",
                                         !.exc = Sleep(retry.delay)]
    /\ UNCHANGED cvars

\* one pass of the loop body, the function raising what except Exception does
\* not catch: it leaves the wrapper
AttemptEscapes ==
    /\ retry.pc = "loop"
    /\ retry.i < Attempts(retry.times)
    /\ \E o \in Outcomes(retry.func) :
          /\ o.kind = "BaseException"
          /\ retry' = [retry EXCEPT !.i = @ + 1, !.log = Append(@, o),
                                    !.pc = "raised", !.exc = o.val]
    /\ UNCHANGED cvars

\* the loop is over: raise last_exc (line 39)
Exhausted ==
    /\ retry.pc = "loop"
    /\ retry.i >= Attempts(retry.times)
    /\ retry' = [retry EXCEPT !.pc = "raised", !.exc = RaiseLast(retry.last_exc)]
    /\ UNCHANGED cvars

NextRetry == AttemptReturns \/ AttemptRaises \/ AttemptEscapes \/ Exhausted

SpecRetry == InitRetry /\ [][NextRetry]_vars

====
